---- MODULE Spec2Model ----
(***************************************************************************)
(* sync_prim::upgrade_mutex (include/sync_prim/upgrade_mutex.hpp).         *)
(*                                                                         *)
(* One atomic state word, one inner std::mutex and two condition           *)
(* variables, used by NThreads threads.  Every atomic operation on the     *)
(* state word, every acquisition or release of the inner mutex, every      *)
(* suspension on a gate and every notification is one step, so that the    *)
(* release paths (which do not take the inner mutex) interleave with the   *)
(* wait predicates exactly as the code allows.                             *)
(***************************************************************************)
EXTENDS Integers, FiniteSets, Sequences

\* ------------------------------------------------------------------ bounds

\* Number of threads using the mutex.
NThreads == 3

\* Width of the reader-count field (29 in the source, narrowed here; the
\* three flag bits sit directly above it, as in the source).
ReaderBits == 3

\* Longest run of operations of one thread, alone on the mutex, that is recorded.
MaxSoloOps == 4

\* Number of lock guard objects one program keeps at a time.
MaxGuards == 3

\* Number of calls followed where the memory order of the accesses is followed.
MaxCalls == 6

\* Iterations of each thread of the upgrade-heavy workload.
ops_per_thread == 2

Threads == 1..NThreads

\* ------------------------------------------------------- state constants

ONE_READER == 1

UPGRADE_PENDING_FLAG == 2 ^ ReaderBits

UPGRADE_LOCKED_FLAG == 2 ^ (ReaderBits + 1)

WRITE_LOCKED_FLAG == 2 ^ (ReaderBits + 2)

READER_COUNT_MASK == UPGRADE_PENDING_FLAG - 1

\* The state word is an unsigned integer of ReaderBits + 3 bits.
WordMod == 2 ^ (ReaderBits + 3)

\* s & flag != 0, for a single-bit flag.
HasFlag(s, flag) == (s \div flag) % 2 = 1

\* s & READER_COUNT_MASK
Readers(s) == s % UPGRADE_PENDING_FLAG

\* s | flag, for a single-bit flag.
OrFlag(s, flag) == IF HasFlag(s, flag) THEN s ELSE s + flag

\* An addition that counts its operand twice.
AddWordTwice(s, x) == (s + x + x) % (2 ^ (ReaderBits + 3))

\* Unsigned wrap-around arithmetic of fetch_sub / operator+.
SubWord(s, x) == (s - x) % WordMod

AddWord(s, x) == (s + x) % WordMod

\* ------------------------------------------------------------------ state

VARIABLES
  state_,           \* std::atomic<uint32_t> state_
  internal_mutex_,  \* owner of std::mutex internal_mutex_, 0 when free
  gate1_,           \* threads suspended on gate1_
  gate2_,           \* threads suspended on gate2_
  pc,               \* position of each thread inside the operation it runs
  current_state,    \* the predicate's local current_state between load and CAS
  hold,             \* the hold each thread has: "none", "S", "U" or "X"
  unhindered,       \* history: WRITER and PENDING were clear during the whole
                    \* of the thread's running lock_shared() call
  foundWriter,      \* history: the thread's last lock_shared() predicate load
                    \* found the write flag set
  writerLeft,       \* history: the operation that ended the last exclusive hold
  writerCame,       \* history: the operation that made the present exclusive hold
  solo,             \* history: the operations one thread has run since the mutex
                    \* was last quiescent, no other thread taking a step, and the
                    \* state word at the return of each
  spurious,         \* history, kept for the observed threads (its domain): the
                    \* thread's last wakeup came without a notification and its
                    \* call has not returned or suspended since
  op,               \* the upgrade-heavy workload's loops, where they run: for each
                    \* thread the iterations finished and whether the current
                    \* iteration took its scoped upgrade
  view,             \* memory order, where it is followed: which ends of holds
                    \* each thread happens after, and which the state word and
                    \* the inner mutex hand on to whoever acquires them
  lap,              \* history, kept where it is switched on: how far two readers
                    \* have come round a cycle of overlapping shared holds while
                    \* a lock() caller stays suspended
  guards            \* the lock guard objects: the class of each live guard and
                    \* whether its p_mutex_ points at the mutex

vars == <<state_, internal_mutex_, gate1_, gate2_, pc, current_state, hold,
          unhindered, foundWriter, writerLeft, writerCame, solo, spurious, lap, op, view, guards>>

\* Positions inside lock_shared().
LockSharedPcs == {"ls_acq", "ls_load", "ls_cas", "ls_block", "ls_wait", "ls_ret"}

\* Positions inside lock_upgrade().
LockUpgradePcs == {"lu_acq", "lu_load", "lu_cas", "lu_block", "lu_wait", "lu_ret"}

\* Positions inside lock().
LockPcs == {"lk_acq", "lk_load", "lk_cas", "lk_block", "lk_wait", "lk_ret"}

\* Positions inside upgrade_to_unique().
UpgradePcs == {"up_acq", "up_or", "up_load", "up_store", "up_block", "up_wait", "up_reacq", "up_ret"}

\* ------------------------------------------------------------- predicates

\* lock() that tests the two holder flags and forgets the reader count.
LockPermittedIgnoringReaders(s) == ~HasFlag(s, WRITE_LOCKED_FLAG) /\ ~HasFlag(s, UPGRADE_LOCKED_FLAG)

\* lock() that tests the write flag and the reader count and forgets the upgrader.
LockPermittedIgnoringUpgrader(s) == ~HasFlag(s, WRITE_LOCKED_FLAG) /\ Readers(s) = 0

\* lock(): current_state == 0
LockPermitted(s) == s = 0

\* lock_shared() that does not look at the pending flag.
SharedPermittedIgnoringPending(s) == ~HasFlag(s, WRITE_LOCKED_FLAG)

\* lock_shared(): no write lock and no pending upgrade
SharedPermitted(s) == ~HasFlag(s, WRITE_LOCKED_FLAG) /\ ~HasFlag(s, UPGRADE_PENDING_FLAG)

\* lock_upgrade() that does not look at the upgrade flag.
UpgradePermittedIgnoringUpgrader(s) == ~HasFlag(s, WRITE_LOCKED_FLAG)

\* lock_upgrade(): no write lock and no other upgrade lock
UpgradePermitted(s) == ~HasFlag(s, WRITE_LOCKED_FLAG) /\ ~HasFlag(s, UPGRADE_LOCKED_FLAG)

\* A drain test that lets one reader stay.
ReadersDrainedButOne(s) == Readers(s) <= ONE_READER

\* upgrade_to_unique(): all current readers are finished
ReadersDrained(s) == Readers(s) = 0

\* unlock_shared(): the caller was the last lock holder
\* The opposite test on the upgrade flag: the last reader beside an upgrader.
LastHolderLeftBesideUpgrader(old_state) ==
  Readers(old_state) = ONE_READER /\ HasFlag(old_state, UPGRADE_LOCKED_FLAG)

LastHolderLeft(old_state) == Readers(old_state) = ONE_READER /\ ~HasFlag(old_state, UPGRADE_LOCKED_FLAG)

\* unlock_upgrade(): no readers were present
\* The test for exactly one reader instead of none.
NoReadersPresentButOne(old_state) == Readers(old_state) = ONE_READER

NoReadersPresent(old_state) == Readers(old_state) = 0

\* ------------------------------------------------- condition variables

\* Where a thread resumes once it is taken off its gate: it re-locks the
\* inner mutex and evaluates its predicate again.
\* A wakeup taken as proof of the predicate: the woken upgrader goes straight
\* to its store.
ResumeWithoutRecheck(p) ==
  CASE p = "ls_wait" -> "ls_acq"
    [] p = "lu_wait" -> "lu_acq"
    [] p = "lk_wait" -> "lk_acq"
    [] p = "up_wait" -> "up_store"
    [] OTHER -> p

Resume(p) ==
  CASE p = "ls_wait" -> "ls_acq"
    [] p = "lu_wait" -> "lu_acq"
    [] p = "lk_wait" -> "lk_acq"
    [] p = "up_wait" -> "up_reacq"
    [] OTHER -> p

\* pc after thread t moved to position `to` and the threads of `woken` were
\* taken off their gate.
Moved(t, to, woken) ==
  [u \in Threads |-> IF u = t THEN to ELSE IF u \in woken THEN Resume(pc[u]) ELSE pc[u]]

\* The operation by which an exclusive holder came to the hold h.
ExitOf(h) ==
  CASE h = "U" -> "unique_to_upgrade"
    [] h = "S" -> "unique_to_shared"
    [] OTHER -> "unlock"

\* Nobody holds, runs or waits: the mutex as constructed.
Quiescent ==
  /\ state_ = 0
  /\ internal_mutex_ = 0
  /\ gate1_ = {}
  /\ gate2_ = {}
  /\ \A u \in Threads : pc[u] = "idle" /\ hold[u] = "none"

\* No run of one thread alone is being recorded.
NoSolo == [who |-> 0, ops |-> <<>>, words |-> <<>>]

\* No guard object: the slot is free.
NoGuard == [kind |-> "none", owns |-> FALSE]

\* The operation thread u calls in this step, read off the position it enters.
CalledOp(u) ==
  CASE pc'[u] = "lk_acq" -> "lock"
    [] pc'[u] = "ls_acq" -> "lock_shared"
    [] pc'[u] = "lu_acq" -> "lock_upgrade"
    [] pc'[u] = "up_acq" -> "upgrade_to_unique"
    [] pc'[u] = "ul_n2" -> "unlock"
    [] pc'[u] \in {"uu_n2", "uu_n1"} -> "unlock_upgrade"
    [] pc'[u] = "xu_n1" -> "unique_to_upgrade"
    [] pc'[u] = "xs_n1" -> "unique_to_shared"
    [] OTHER -> "unlock_shared"

\* The record of the run of solo.who after this step.
SoloAfter ==
  LET t == solo.who IN
    IF \E u \in Threads \ {t} : pc'[u] # pc[u] THEN NoSolo
    ELSE IF pc[t] = "idle" /\ (pc'[t] # "idle" \/ hold'[t] # hold[t])
      THEN IF Len(solo.ops) >= MaxSoloOps THEN NoSolo
           ELSE [who |-> t,
                 ops |-> Append(solo.ops, CalledOp(t)),
                 words |-> IF pc'[t] = "idle" THEN Append(solo.words, state_') ELSE solo.words]
    ELSE IF pc[t] # "idle" /\ pc'[t] = "idle"
      THEN [solo EXCEPT !.words = Append(@, state_')]
    ELSE solo

\* The history variables follow the step: they record, they decide nothing.
\* No lap is recorded.
NoLap == [phase |-> "off", t |-> 0, a |-> 0, b |-> 0]

\* In the next state thread t is suspended in lock() on gate2, thread a, idle,
\* has the only shared hold, every other thread is idle without a hold, the
\* inner mutex is free and nobody else is suspended: one fully determined
\* state of the mutex and its threads.
OneReaderLeft(t, a) ==
  /\ t # a
  /\ state_' = ONE_READER
  /\ internal_mutex_' = 0
  /\ gate1_' = {}
  /\ gate2_' = {t}
  /\ pc' = [u \in Threads |-> IF u = t THEN "lk_wait" ELSE "idle"]
  /\ hold' = [u \in Threads |-> IF u = a THEN "S" ELSE "none"]
  /\ current_state' = [u \in Threads |-> 0]

\* In the next state threads a and b, both idle, have a shared hold each.
BothHold(a, b) ==
  /\ pc'[a] = "idle" /\ hold'[a] = "S"
  /\ pc'[b] = "idle" /\ hold'[b] = "S"

\* The lap after the step: it starts where one reader is left beside the
\* suspended lock() caller, goes on when the second reader has its hold too,
\* when the first has released, when the first has its hold again, and closes
\* when the second has released and the state is the one the lap started in.
\* It is abandoned as soon as the caller is no longer suspended or READERS is 0.
LapAfter ==
  LET t == lap.t
      a == lap.a
      b == lap.b
      starts == IF state_' = ONE_READER /\ internal_mutex_' = 0 /\ gate1_' = {}
                  THEN {x \in gate2_' \X Threads \X Threads :
                          x[3] \notin {x[1], x[2]} /\ OneReaderLeft(x[1], x[2])}
                  ELSE {}
      ready == [phase |-> "ready", t |-> 0, a |-> 0, b |-> 0]
  IN  IF lap.phase = "ready"
        THEN IF starts = {} THEN lap
             ELSE LET x == CHOOSE y \in starts : TRUE
                  IN  [phase |-> "one", t |-> x[1], a |-> x[2], b |-> x[3]]
      ELSE IF ~(pc'[t] = "lk_wait" /\ t \in gate2_' /\ Readers(state_') >= 1) THEN ready
      ELSE IF lap.phase = "one" /\ BothHold(a, b) THEN [lap EXCEPT !.phase = "two"]
      ELSE IF lap.phase = "two" /\ OneReaderLeft(t, b) THEN [lap EXCEPT !.phase = "other"]
      ELSE IF lap.phase = "other" /\ BothHold(a, b) THEN [lap EXCEPT !.phase = "twoagain"]
      ELSE IF lap.phase = "twoagain" /\ OneReaderLeft(t, a) THEN [lap EXCEPT !.phase = "closed"]
      ELSE lap

\* ------------------------------------------------------------ memory order
\* The end of a hold is the release operation that gives it up or downgrades
\* it.  A thread's view is the set of threads whose latest end of a hold it
\* happens after; `last` is the kind of hold that end gave up.  The state word hands on
\* the views published by the release operations whose release sequences its
\* current value belongs to; the inner mutex hands on the views of all who
\* unlocked it.

\* Memory order is not followed.
NoView ==
  [on |-> FALSE, calls |-> 0, last |-> [t \in Threads |-> "none"],
   thread |-> [t \in Threads |-> {}], word |-> {}, mutex |-> {}]

\* compare_exchange_strong succeeding with memory_order_acquire, and
\* fetch_or(UPGRADE_PENDING_FLAG, memory_order_acquire): read-modify-write
\* operations that read the latest value and acquire what it hands on.
AcquireRmw(t) ==
  \/ pc[t] \in {"lk_cas", "ls_cas", "lu_cas"} /\ hold'[t] # hold[t]
  \/ pc[t] = "up_or" /\ pc'[t] = "up_load"

\* fetch_sub(..., memory_order_release) of unlock(), unlock_shared() and
\* unlock_upgrade(): a read-modify-write, so earlier release sequences go on.
ReleaseRmw(t) == pc[t] = "idle" /\ hold[t] # "none" /\ hold'[t] = "none"

\* store(..., memory_order_release) of unique_to_upgrade() and
\* unique_to_shared(): a plain store, which ends earlier release sequences.
DowngradeStore(t) == pc[t] = "idle" /\ hold[t] = "X" /\ hold'[t] \in {"U", "S"}

\* store(WRITE_LOCKED_FLAG, memory_order_release) of upgrade_to_unique().
UpgradeStoreRelease(t) == pc[t] = "up_store" /\ pc'[t] = "up_ret"

\* std::mutex lock (also on the way out of condition_variable::wait).
MutexTaken(t) == internal_mutex_ = 0 /\ internal_mutex_' = t

\* std::mutex unlock (also on the way into condition_variable::wait).
MutexGiven(t) == internal_mutex_ = t /\ internal_mutex_' = 0

\* Thread t calls an operation in this step.
Called(t) == pc[t] = "idle" /\ (pc'[t] # "idle" \/ hold'[t] # hold[t])

\* The views after the step.  Relaxed loads, failed exchanges and the
\* condition variables' notifications hand on nothing.
ViewsAfter ==
  LET movers == {t \in Threads :
                   \/ AcquireRmw(t) \/ ReleaseRmw(t) \/ DowngradeStore(t)
                   \/ UpgradeStoreRelease(t) \/ MutexTaken(t) \/ MutexGiven(t)}
  IN  IF movers = {} THEN view
      ELSE
        LET t == CHOOSE u \in movers : TRUE
            own == view.thread[t]
        IN  IF ReleaseRmw(t) \/ DowngradeStore(t)
              THEN [on |-> TRUE,
                    calls |-> view.calls,
                    last |-> [view.last EXCEPT ![t] = hold[t]],
                    thread |-> [u \in Threads |->
                       IF u = t THEN own \cup {t} ELSE view.thread[u] \ {t}],
                    word |-> IF DowngradeStore(t) THEN own \cup {t}
                             ELSE view.word \cup own \cup {t},
                    mutex |-> view.mutex \ {t}]
            ELSE IF UpgradeStoreRelease(t) THEN [view EXCEPT !.word = own]
            ELSE IF AcquireRmw(t)
              THEN [view EXCEPT !.thread[t] = own \cup view.word]
            ELSE IF MutexTaken(t)
              THEN [view EXCEPT !.thread[t] = own \cup view.mutex]
            ELSE [view EXCEPT !.mutex = view.mutex \cup own]

\* The views after the step, and the calls counted.
ViewAfter ==
  [ViewsAfter EXCEPT
     !.calls = IF \E t \in Threads : Called(t) THEN view.calls + 1 ELSE view.calls]

Track ==
  /\ unhindered' = [u \in Threads |->
       /\ pc'[u] \in LockSharedPcs
       /\ (pc[u] \in LockSharedPcs => unhindered[u])
       /\ SharedPermitted(state_')]
  /\ foundWriter' = [u \in Threads |->
       IF pc'[u] \notin LockSharedPcs THEN FALSE
       ELSE IF pc[u] = "ls_load" /\ pc'[u] # "ls_load" THEN HasFlag(state_, WRITE_LOCKED_FLAG)
       ELSE foundWriter[u]]
  /\ writerLeft' =
       IF \E u \in Threads : hold[u] # "X" /\ hold'[u] = "X" THEN "none"
       ELSE IF \E u \in Threads : hold[u] = "X" /\ hold'[u] # "X"
         THEN ExitOf(hold'[CHOOSE u \in Threads : hold[u] = "X" /\ hold'[u] # "X"])
       ELSE writerLeft
  /\ writerCame' =
       IF \E u \in Threads : hold[u] # "X" /\ hold'[u] = "X"
         THEN IF \E u \in Threads : pc[u] \in UpgradePcs /\ hold'[u] = "X"
                THEN "upgrade_to_unique" ELSE "lock"
       ELSE IF \E u \in Threads : hold[u] = "X" /\ hold'[u] # "X" THEN "none"
       ELSE writerCame
  /\ solo' =
       IF Quiescent
         THEN [who |-> CHOOSE u \in Threads : pc'[u] # "idle",
               ops |-> <<CalledOp(CHOOSE u \in Threads : pc'[u] # "idle")>>,
               words |-> <<>>]
       ELSE IF solo.who = 0 THEN solo
       ELSE SoloAfter
  /\ spurious' = [u \in DOMAIN spurious |->
       IF pc'[u] \in {"idle", "ls_wait", "lu_wait", "lk_wait", "up_wait"} THEN FALSE
       ELSE IF u \in gate1_ \cup gate2_ /\ \A v \in Threads \ {u} : pc'[v] = pc[v] THEN TRUE
       ELSE spurious[u]]
  /\ lap' = IF lap.phase = "off" THEN lap ELSE LapAfter
  /\ op' = [u \in DOMAIN op |->
       IF hold[u] = "U" /\ hold'[u] = "none"
         THEN [done |-> op[u].done + 1, upgraded |-> FALSE]
       ELSE IF pc'[u] = "up_acq" THEN [op[u] EXCEPT !.upgraded = TRUE]
       ELSE op[u]]
  /\ view' = IF view.on THEN ViewAfter ELSE view
  /\ UNCHANGED guards

\* std::unique_lock<std::mutex> internal_lock(internal_mutex_), or the
\* re-lock at the end of condition_variable::wait.
MutexLock(t, from, to) ==
  /\ pc[t] = from
  /\ internal_mutex_ = 0
  /\ internal_mutex_' = t
  /\ pc' = Moved(t, to, {})
  /\ UNCHANGED <<state_, gate1_, gate2_, current_state, hold>>
  /\ Track

\* ~unique_lock at the end of an acquiring operation.
MutexUnlock(t, from) ==
  /\ pc[t] = from
  /\ internal_mutex_' = 0
  /\ pc' = Moved(t, "idle", {})
  /\ UNCHANGED <<state_, gate1_, gate2_, current_state, hold>>
  /\ Track

\* condition_variable::wait on gate1_: release the inner mutex and suspend.
WaitGate1(t, from, to) ==
  /\ pc[t] = from
  /\ internal_mutex_' = 0
  /\ gate1_' = gate1_ \cup {t}
  /\ pc' = Moved(t, to, {})
  /\ UNCHANGED <<state_, gate2_, current_state, hold>>
  /\ Track

\* condition_variable::wait on gate2_: release the inner mutex and suspend.
WaitGate2(t, from, to) ==
  /\ pc[t] = from
  /\ internal_mutex_' = 0
  /\ gate2_' = gate2_ \cup {t}
  /\ pc' = Moved(t, to, {})
  /\ UNCHANGED <<state_, gate1_, current_state, hold>>
  /\ Track

\* A broadcast that first needs the inner mutex free.
NotifyAllGate1UnderMutex(t, from, to) ==
  /\ pc[t] = from
  /\ internal_mutex_ = 0
  /\ pc' = Moved(t, to, gate1_)
  /\ gate1_' = {}
  /\ UNCHANGED <<state_, internal_mutex_, gate2_, current_state, hold>>
  /\ Track

\* A notification that wakes a single thread of gate1.
NotifyOneGate1(t, from, to) ==
  /\ pc[t] = from
  /\ \/ /\ gate1_ = {}
        /\ pc' = Moved(t, to, {})
        /\ gate1_' = gate1_
     \/ \E w \in gate1_ :
          /\ pc' = Moved(t, to, {w})
          /\ gate1_' = gate1_ \ {w}
  /\ UNCHANGED <<state_, internal_mutex_, gate2_, current_state, hold>>
  /\ Track

\* gate1_.notify_all()
NotifyAllGate1(t, from, to) ==
  /\ pc[t] = from
  /\ pc' = Moved(t, to, gate1_)
  /\ gate1_' = {}
  /\ UNCHANGED <<state_, internal_mutex_, gate2_, current_state, hold>>
  /\ Track

\* gate2_.notify_one(): any one of the suspended threads, none if there is none.
NotifyOneGate2(t, from, to) ==
  /\ pc[t] = from
  /\ \/ /\ gate2_ = {}
        /\ pc' = Moved(t, to, {})
        /\ gate2_' = gate2_
     \/ \E w \in gate2_ :
          /\ pc' = Moved(t, to, {w})
          /\ gate2_' = gate2_ \ {w}
  /\ UNCHANGED <<state_, internal_mutex_, gate1_, current_state, hold>>
  /\ Track

\* A spurious wakeup of a thread suspended on either gate.
SpuriousWakeup(t) ==
  /\ t \in gate1_ \cup gate2_
  /\ gate1_' = gate1_ \ {t}
  /\ gate2_' = gate2_ \ {t}
  /\ pc' = Moved(t, Resume(pc[t]), {})
  /\ UNCHANGED <<state_, internal_mutex_, current_state, hold>>
  /\ Track

\* A thread that holds nothing calls an acquiring operation.
Call(t, to) ==
  /\ pc[t] = "idle"
  /\ hold[t] = "none"
  /\ pc' = Moved(t, to, {})
  /\ UNCHANGED <<state_, internal_mutex_, gate1_, gate2_, current_state, hold>>
  /\ Track

\* ------------------------------------------------------------------ lock()

LockCall(t) == Call(t, "lk_acq")

LockAcquireMutex(t) == MutexLock(t, "lk_acq", "lk_load")

\* The predicate's load; the CAS is attempted only when the word is 0.
LockLoad(t) ==
  /\ pc[t] = "lk_load"
  /\ pc' = Moved(t, IF LockPermitted(state_) THEN "lk_cas" ELSE "lk_block", {})
  /\ current_state' = [current_state EXCEPT ![t] = IF LockPermitted(state_) THEN state_ ELSE 0]
  /\ UNCHANGED <<state_, internal_mutex_, gate1_, gate2_, hold>>
  /\ Track

\* compare_exchange_strong(current_state, WRITE_LOCKED_FLAG); its result is the
\* predicate's result.
LockCas(t) ==
  /\ pc[t] = "lk_cas"
  /\ IF state_ = current_state[t]
       THEN /\ state_' = WRITE_LOCKED_FLAG
            /\ hold' = [hold EXCEPT ![t] = "X"]
            /\ pc' = Moved(t, "lk_ret", {})
       ELSE /\ pc' = Moved(t, "lk_block", {})
            /\ UNCHANGED <<state_, hold>>
  /\ current_state' = [current_state EXCEPT ![t] = 0]
  /\ UNCHANGED <<internal_mutex_, gate1_, gate2_>>
  /\ Track

LockBlock(t) == WaitGate2(t, "lk_block", "lk_wait")

LockReturn(t) == MutexUnlock(t, "lk_ret")

\* ---------------------------------------------------------------- unlock()

\* state_.fetch_sub(WRITE_LOCKED_FLAG)
Unlock(t) ==
  /\ pc[t] = "idle"
  /\ hold[t] = "X"
  /\ state_' = SubWord(state_, WRITE_LOCKED_FLAG)
  /\ hold' = [hold EXCEPT ![t] = "none"]
  /\ pc' = Moved(t, "ul_n2", {})
  /\ UNCHANGED <<internal_mutex_, gate1_, gate2_, current_state>>
  /\ Track

UnlockNotifyGate2(t) == NotifyOneGate2(t, "ul_n2", "ul_n1")

UnlockNotifyGate1(t) == NotifyAllGate1(t, "ul_n1", "idle")

\* ----------------------------------------------------------- lock_shared()

LockSharedCall(t) == Call(t, "ls_acq")

LockSharedAcquireMutex(t) == MutexLock(t, "ls_acq", "ls_load")

LockSharedLoad(t) ==
  /\ pc[t] = "ls_load"
  /\ pc' = Moved(t, IF SharedPermitted(state_) THEN "ls_cas" ELSE "ls_block", {})
  /\ current_state' = [current_state EXCEPT ![t] = IF SharedPermitted(state_) THEN state_ ELSE 0]
  /\ UNCHANGED <<state_, internal_mutex_, gate1_, gate2_, hold>>
  /\ Track

\* compare_exchange_strong(current_state, current_state + ONE_READER)
LockSharedCas(t) ==
  /\ pc[t] = "ls_cas"
  /\ IF state_ = current_state[t]
       THEN /\ state_' = AddWord(current_state[t], ONE_READER)
            /\ hold' = [hold EXCEPT ![t] = "S"]
            /\ pc' = Moved(t, "ls_ret", {})
       ELSE /\ pc' = Moved(t, "ls_block", {})
            /\ UNCHANGED <<state_, hold>>
  /\ current_state' = [current_state EXCEPT ![t] = 0]
  /\ UNCHANGED <<internal_mutex_, gate1_, gate2_>>
  /\ Track

LockSharedBlock(t) == WaitGate1(t, "ls_block", "ls_wait")

LockSharedReturn(t) == MutexUnlock(t, "ls_ret")

\* --------------------------------------------------------- unlock_shared()

\* state_.fetch_sub(ONE_READER); old_state decides whether gate2_ is notified.
UnlockShared(t) ==
  /\ pc[t] = "idle"
  /\ hold[t] = "S"
  /\ state_' = SubWord(state_, ONE_READER)
  /\ hold' = [hold EXCEPT ![t] = "none"]
  /\ pc' = Moved(t, IF LastHolderLeft(state_) THEN "us_n2" ELSE "idle", {})
  /\ UNCHANGED <<internal_mutex_, gate1_, gate2_, current_state>>
  /\ Track

UnlockSharedNotifyGate2(t) == NotifyOneGate2(t, "us_n2", "idle")

\* ---------------------------------------------------------- lock_upgrade()

LockUpgradeCall(t) == Call(t, "lu_acq")

LockUpgradeAcquireMutex(t) == MutexLock(t, "lu_acq", "lu_load")

LockUpgradeLoad(t) ==
  /\ pc[t] = "lu_load"
  /\ pc' = Moved(t, IF UpgradePermitted(state_) THEN "lu_cas" ELSE "lu_block", {})
  /\ current_state' = [current_state EXCEPT ![t] = IF UpgradePermitted(state_) THEN state_ ELSE 0]
  /\ UNCHANGED <<state_, internal_mutex_, gate1_, gate2_, hold>>
  /\ Track

\* compare_exchange_strong(current_state, current_state | UPGRADE_LOCKED_FLAG)
LockUpgradeCas(t) ==
  /\ pc[t] = "lu_cas"
  /\ IF state_ = current_state[t]
       THEN /\ state_' = OrFlag(current_state[t], UPGRADE_LOCKED_FLAG)
            /\ hold' = [hold EXCEPT ![t] = "U"]
            /\ pc' = Moved(t, "lu_ret", {})
       ELSE /\ pc' = Moved(t, "lu_block", {})
            /\ UNCHANGED <<state_, hold>>
  /\ current_state' = [current_state EXCEPT ![t] = 0]
  /\ UNCHANGED <<internal_mutex_, gate1_, gate2_>>
  /\ Track

LockUpgradeBlock(t) == WaitGate1(t, "lu_block", "lu_wait")

LockUpgradeReturn(t) == MutexUnlock(t, "lu_ret")

\* -------------------------------------------------------- unlock_upgrade()

\* state_.fetch_sub(UPGRADE_LOCKED_FLAG)
UnlockUpgrade(t) ==
  /\ pc[t] = "idle"
  /\ hold[t] = "U"
  /\ state_' = SubWord(state_, UPGRADE_LOCKED_FLAG)
  /\ hold' = [hold EXCEPT ![t] = "none"]
  /\ pc' = Moved(t, IF NoReadersPresent(state_) THEN "uu_n2" ELSE "uu_n1", {})
  /\ UNCHANGED <<internal_mutex_, gate1_, gate2_, current_state>>
  /\ Track

UnlockUpgradeNotifyGate2(t) == NotifyOneGate2(t, "uu_n2", "uu_n1")

UnlockUpgradeNotifyGate1(t) == NotifyAllGate1(t, "uu_n1", "idle")

\* ----------------------------------------------------- upgrade_to_unique()

\* Called by the holder of the upgradeable hold.
UpgradeToUniqueCall(t) ==
  /\ pc[t] = "idle"
  /\ hold[t] = "U"
  /\ pc' = Moved(t, "up_acq", {})
  /\ UNCHANGED <<state_, internal_mutex_, gate1_, gate2_, current_state, hold>>
  /\ Track

UpgradeAcquireMutex(t) == MutexLock(t, "up_acq", "up_or")

\* state_.fetch_or(UPGRADE_PENDING_FLAG)
UpgradeSetPending(t) ==
  /\ pc[t] = "up_or"
  /\ state_' = OrFlag(state_, UPGRADE_PENDING_FLAG)
  /\ pc' = Moved(t, "up_load", {})
  /\ UNCHANGED <<internal_mutex_, gate1_, gate2_, current_state, hold>>
  /\ Track

\* The drain predicate: (state_.load() & READER_COUNT_MASK) == 0
UpgradeLoad(t) ==
  /\ pc[t] = "up_load"
  /\ pc' = Moved(t, IF ReadersDrained(state_) THEN "up_store" ELSE "up_block", {})
  /\ UNCHANGED <<state_, internal_mutex_, gate1_, gate2_, current_state, hold>>
  /\ Track

UpgradeBlock(t) == WaitGate2(t, "up_block", "up_wait")

UpgradeReacquireMutex(t) == MutexLock(t, "up_reacq", "up_load")

\* upgrade_to_unique() that ORs the write flag into the word.
UpgradeToUniqueWordOr(s) == OrFlag(s, WRITE_LOCKED_FLAG)

\* upgrade_to_unique() that swaps the upgrade flag for the write flag and
\* leaves the pending flag.
UpgradeToUniqueWordSwap(s) == OrFlag(SubWord(s, UPGRADE_LOCKED_FLAG), WRITE_LOCKED_FLAG)

\* The word upgrade_to_unique() stores: the write flag alone.
UpgradeToUniqueWord(s) == WRITE_LOCKED_FLAG

\* state_.store(WRITE_LOCKED_FLAG)
UpgradeStore(t) ==
  /\ pc[t] = "up_store"
  /\ state_' = UpgradeToUniqueWord(state_)
  /\ hold' = [hold EXCEPT ![t] = "X"]
  /\ pc' = Moved(t, "up_ret", {})
  /\ UNCHANGED <<internal_mutex_, gate1_, gate2_, current_state>>
  /\ Track

UpgradeReturn(t) == MutexUnlock(t, "up_ret")

\* ----------------------------------------------------- unique_to_upgrade()

\* unique_to_upgrade() that ORs the upgrade flag into the word.
UniqueToUpgradeWordOr(s) == OrFlag(s, UPGRADE_LOCKED_FLAG)

\* unique_to_upgrade() that stores the upgrade flag with the pending flag.
UniqueToUpgradeWordPending(s) == UPGRADE_LOCKED_FLAG + UPGRADE_PENDING_FLAG

\* The word unique_to_upgrade() stores: the upgrade flag alone.
UniqueToUpgradeWord(s) == UPGRADE_LOCKED_FLAG

\* state_.store(UPGRADE_LOCKED_FLAG)
UniqueToUpgrade(t) ==
  /\ pc[t] = "idle"
  /\ hold[t] = "X"
  /\ state_' = UniqueToUpgradeWord(state_)
  /\ hold' = [hold EXCEPT ![t] = "U"]
  /\ pc' = Moved(t, "xu_n1", {})
  /\ UNCHANGED <<internal_mutex_, gate1_, gate2_, current_state>>
  /\ Track

UniqueToUpgradeNotifyGate1(t) == NotifyAllGate1(t, "xu_n1", "idle")

\* --------------------------------------------------------- scoped_upgrade

\* scoped_upgrade's constructor: "identical to a full upgrade".
ScopedUpgradeEntry(t) == UpgradeToUniqueCall(t)

\* scoped_upgrade's destructor: "identical to a downgrade to upgradeable".
ScopedUpgradeExit(t) == UniqueToUpgrade(t)

\* ------------------------------------------------------ unique_to_shared()

\* unique_to_shared() that clears the write flag and counts no reader.
UniqueToSharedWordNoReader(s) == SubWord(s, WRITE_LOCKED_FLAG)

\* The word unique_to_shared() stores: one reader, no flag.
UniqueToSharedWord(s) == ONE_READER

\* state_.store(ONE_READER)
UniqueToShared(t) ==
  /\ pc[t] = "idle"
  /\ hold[t] = "X"
  /\ state_' = UniqueToSharedWord(state_)
  /\ hold' = [hold EXCEPT ![t] = "S"]
  /\ pc' = Moved(t, "xs_n1", {})
  /\ UNCHANGED <<internal_mutex_, gate1_, gate2_, current_state>>
  /\ Track

UniqueToSharedNotifyGate1(t) == NotifyAllGate1(t, "xs_n1", "idle")

\* ------------------------------------------------------------ lock guards
\* A single-threaded program that works on the mutex through guard objects
\* only.  Each guard operation runs the mutex calls it makes to their end; a
\* constructor whose mutex call would not return is not taken.

GuardKinds == {"unique", "shared", "upgrade"}

\* The word the acquiring constructor's mutex call leaves.
AcquireWord(k, s) ==
  CASE k = "unique" -> WRITE_LOCKED_FLAG
    [] k = "shared" -> AddWord(s, ONE_READER)
    [] k = "upgrade" -> OrFlag(s, UPGRADE_LOCKED_FLAG)

\* The acquiring constructor's mutex call returns from the word s.
AcquirePermitted(k, s) ==
  CASE k = "unique" -> LockPermitted(s)
    [] k = "shared" -> SharedPermitted(s)
    [] k = "upgrade" -> UpgradePermitted(s)

\* The word the destructor's mutex call leaves.
ReleaseWord(k, s) ==
  CASE k = "unique" -> SubWord(s, WRITE_LOCKED_FLAG)
    [] k = "shared" -> SubWord(s, ONE_READER)
    [] k = "upgrade" -> SubWord(s, UPGRADE_LOCKED_FLAG)

\* Everything but the state word and the guards stays as it is.
GuardFrame ==
  UNCHANGED <<internal_mutex_, gate1_, gate2_, pc, current_state, hold,
              unhindered, foundWriter, writerLeft, writerCame, solo, spurious, lap, op, view>>

\* unique_lock(), shared_lock(), upgrade_lock(): a guard that owns nothing.
GuardDefault(i, k) ==
  /\ guards[i] = NoGuard
  /\ guards' = [guards EXCEPT ![i] = [kind |-> k, owns |-> FALSE]]
  /\ UNCHANGED state_
  /\ GuardFrame

\* unique_lock(m), shared_lock(m), upgrade_lock(m).
GuardConstruct(i, k) ==
  /\ guards[i] = NoGuard
  /\ AcquirePermitted(k, state_)
  /\ state_' = AcquireWord(k, state_)
  /\ guards' = [guards EXCEPT ![i] = [kind |-> k, owns |-> TRUE]]
  /\ GuardFrame

\* ~unique_lock(), ~shared_lock(), ~upgrade_lock().
GuardDestroy(i) ==
  /\ guards[i] # NoGuard
  /\ state_' = IF guards[i].owns THEN ReleaseWord(guards[i].kind, state_) ELSE state_
  /\ guards' = [guards EXCEPT ![i] = NoGuard]
  /\ GuardFrame

\* The defaulted move constructors: guard i is made from guard j of its class.
GuardMoveConstruct(i, j) ==
  /\ guards[i] = NoGuard
  /\ guards[j] # NoGuard
  /\ guards' = [guards EXCEPT ![i] = guards[j], ![j].owns = FALSE]
  /\ UNCHANGED state_
  /\ GuardFrame

\* The defaulted move assignments: guard i = std::move(guard j).
GuardMoveAssign(i, j) ==
  /\ i # j
  /\ guards[i] # NoGuard
  /\ guards[j] # NoGuard
  /\ guards[i].kind = guards[j].kind
  /\ guards' = [guards EXCEPT ![i].owns = guards[j].owns, ![j].owns = FALSE]
  /\ UNCHANGED state_
  /\ GuardFrame

\* unique_lock(upgrade_lock &&): the upgrade waits for the readers to leave.
GuardUpgradeToUnique(i, j) ==
  /\ guards[i] = NoGuard
  /\ guards[j] # NoGuard
  /\ guards[j].kind = "upgrade"
  /\ guards[j].owns => ReadersDrained(OrFlag(state_, UPGRADE_PENDING_FLAG))
  /\ state_' = IF guards[j].owns
                 THEN UpgradeToUniqueWord(OrFlag(state_, UPGRADE_PENDING_FLAG))
                 ELSE state_
  /\ guards' = [guards EXCEPT ![i] = [kind |-> "unique", owns |-> guards[j].owns],
                              ![j].owns = FALSE]
  /\ GuardFrame

\* upgrade_lock(unique_lock &&).
GuardUniqueToUpgrade(i, j) ==
  /\ guards[i] = NoGuard
  /\ guards[j] # NoGuard
  /\ guards[j].kind = "unique"
  /\ state_' = IF guards[j].owns THEN UniqueToUpgradeWord(state_) ELSE state_
  /\ guards' = [guards EXCEPT ![i] = [kind |-> "upgrade", owns |-> guards[j].owns],
                              ![j].owns = FALSE]
  /\ GuardFrame

\* shared_lock(unique_lock &&).
GuardUniqueToShared(i, j) ==
  /\ guards[i] = NoGuard
  /\ guards[j] # NoGuard
  /\ guards[j].kind = "unique"
  /\ state_' = IF guards[j].owns THEN UniqueToSharedWord(state_) ELSE state_
  /\ guards' = [guards EXCEPT ![i] = [kind |-> "shared", owns |-> guards[j].owns],
                              ![j].owns = FALSE]
  /\ GuardFrame

GuardNext ==
  \E i, j \in 1..MaxGuards :
    \/ \E k \in GuardKinds : GuardDefault(i, k)
    \/ \E k \in GuardKinds : GuardConstruct(i, k)
    \/ GuardDestroy(i)
    \/ GuardMoveConstruct(i, j)
    \/ GuardMoveAssign(i, j)
    \/ GuardUpgradeToUnique(i, j)
    \/ GuardUniqueToUpgrade(i, j)
    \/ GuardUniqueToShared(i, j)

\* ---------------------------------------------------------- specification

\* The mutex after construction, no thread inside a call.
Constructed ==
  /\ state_ = 0
  /\ internal_mutex_ = 0
  /\ gate1_ = {}
  /\ gate2_ = {}
  /\ pc = [t \in Threads |-> "idle"]
  /\ current_state = [t \in Threads |-> 0]
  /\ hold = [t \in Threads |-> "none"]
  /\ unhindered = [t \in Threads |-> FALSE]
  /\ foundWriter = [t \in Threads |-> FALSE]
  /\ writerLeft = "none"
  /\ writerCame = "none"
  /\ solo = NoSolo
  /\ guards = [i \in 1..MaxGuards |-> NoGuard]

Init ==
  /\ Constructed
  /\ spurious = [t \in {} |-> FALSE]
  /\ lap = NoLap
  /\ op = [t \in {} |-> 0]
  /\ view = NoView

\* One step of thread t inside an operation it has started.
Step(t) ==
  \/ LockAcquireMutex(t)
  \/ LockLoad(t)
  \/ LockCas(t)
  \/ LockBlock(t)
  \/ LockReturn(t)
  \/ UnlockNotifyGate2(t)
  \/ UnlockNotifyGate1(t)
  \/ LockSharedAcquireMutex(t)
  \/ LockSharedLoad(t)
  \/ LockSharedCas(t)
  \/ LockSharedBlock(t)
  \/ LockSharedReturn(t)
  \/ UnlockSharedNotifyGate2(t)
  \/ LockUpgradeAcquireMutex(t)
  \/ LockUpgradeLoad(t)
  \/ LockUpgradeCas(t)
  \/ LockUpgradeBlock(t)
  \/ LockUpgradeReturn(t)
  \/ UnlockUpgradeNotifyGate2(t)
  \/ UnlockUpgradeNotifyGate1(t)
  \/ UpgradeAcquireMutex(t)
  \/ UpgradeSetPending(t)
  \/ UpgradeLoad(t)
  \/ UpgradeBlock(t)
  \/ UpgradeReacquireMutex(t)
  \/ UpgradeStore(t)
  \/ UpgradeReturn(t)
  \/ UniqueToUpgradeNotifyGate1(t)
  \/ UniqueToSharedNotifyGate1(t)

\* Thread t calls an operation its current hold allows.
Begin(t) ==
  \/ LockCall(t)
  \/ Unlock(t)
  \/ LockSharedCall(t)
  \/ UnlockShared(t)
  \/ LockUpgradeCall(t)
  \/ UnlockUpgrade(t)
  \/ UpgradeToUniqueCall(t)
  \/ UniqueToUpgrade(t)
  \/ UniqueToShared(t)
  \/ ScopedUpgradeEntry(t)
  \/ ScopedUpgradeExit(t)

Next == \E t \in Threads : Begin(t) \/ Step(t) \/ SpuriousWakeup(t)

Spec == Init /\ [][Next]_vars

\* Fair scheduling: a thread inside an operation takes its next step whenever
\* that step is possible again and again (it gets the inner mutex eventually).
\* Calls are the callers' choice and spurious wakeups are not promised.
LiveSpec == Init /\ [][Next]_vars /\ \A t \in Threads : SF_vars(Step(t))

\* The threads as in Spec, with the laps of two readers round a suspended
\* lock() caller recorded.
LapInit ==
  /\ Constructed
  /\ spurious = [t \in {} |-> FALSE]
  /\ lap = [phase |-> "ready", t |-> 0, a |-> 0, b |-> 0]
  /\ op = [t \in {} |-> 0]
  /\ view = NoView

LapSpec == LapInit /\ [][Next]_vars

\* The threads as in Spec, with the memory order of their accesses followed.
OrderedInit ==
  /\ Constructed
  /\ spurious = [t \in {} |-> FALSE]
  /\ lap = NoLap
  /\ op = [t \in {} |-> 0]
  /\ view = [NoView EXCEPT !.on = TRUE]

\* MaxCalls calls are followed.
OrderedNext ==
  \E t \in Threads :
    \/ Begin(t) /\ view.calls < MaxCalls
    \/ Step(t)
    \/ SpuriousWakeup(t)

OrderedSpec == OrderedInit /\ [][OrderedNext]_vars

\* ---------------------------------------------------- upgrade-heavy workload

\* Every thread runs the loop of upgrade_heavy_benchmark: ops_per_thread times
\* an upgrade_lock guard (lock_upgrade), under it at most one scoped_upgrade
\* guard (entry and exit), and the guard's end (unlock_upgrade).  No thread
\* takes a shared hold, so upgrade_to_unique() finds READERS = 0 at its first
\* look and never suspends.
UpgradeHeavyInit ==
  /\ Constructed
  /\ spurious = [t \in {} |-> FALSE]
  /\ lap = NoLap
  /\ op = [t \in Threads |-> [done |-> 0, upgraded |-> FALSE]]
  /\ view = NoView

\* One step of thread t's loop.
UpgradeHeavyStep(t) ==
  \/ LockUpgradeCall(t) /\ op[t].done < ops_per_thread
  \/ LockUpgradeAcquireMutex(t)
  \/ LockUpgradeLoad(t)
  \/ LockUpgradeCas(t)
  \/ LockUpgradeBlock(t)
  \/ LockUpgradeReturn(t)
  \/ ScopedUpgradeEntry(t) /\ ~op[t].upgraded
  \/ UpgradeAcquireMutex(t)
  \/ UpgradeSetPending(t)
  \/ UpgradeLoad(t)
  \/ UpgradeStore(t)
  \/ UpgradeReturn(t)
  \/ ScopedUpgradeExit(t)
  \/ UniqueToUpgradeNotifyGate1(t)
  \/ UnlockUpgrade(t)
  \/ UnlockUpgradeNotifyGate2(t)
  \/ UnlockUpgradeNotifyGate1(t)

UpgradeHeavyNext == \E t \in Threads : UpgradeHeavyStep(t) \/ SpuriousWakeup(t)

UpgradeHeavySpec == UpgradeHeavyInit /\ [][UpgradeHeavyNext]_vars

\* Fair scheduling of the workload: every thread goes on with its loop whenever
\* its next step is possible again and again.  Spurious wakeups are not promised.
UpgradeHeavyLiveSpec ==
  UpgradeHeavyInit /\ [][UpgradeHeavyNext]_vars
    /\ \A t \in Threads : SF_vars(UpgradeHeavyStep(t))

\* The threads as in Spec, with the wakeups of thread 1 observed.
ObservedInit ==
  /\ Constructed
  /\ spurious = [t \in {1} |-> FALSE]
  /\ lap = NoLap
  /\ op = [t \in {} |-> 0]
  /\ view = NoView

ObservedSpec == ObservedInit /\ [][Next]_vars

\* The guard program alone on a fresh mutex.
GuardSpec == Init /\ [][GuardNext]_vars

\* ------------------------------------------------------------------ claims

Pending == HasFlag(state_, UPGRADE_PENDING_FLAG)

Writer == HasFlag(state_, WRITE_LOCKED_FLAG)

Upgrader == HasFlag(state_, UPGRADE_LOCKED_FLAG)

\* C1: mutual exclusion of the exclusive mode.  While a thread has the
\* exclusive hold (from the CAS of lock() or the store of upgrade_to_unique()
\* until its unlock() or downgrade), no other thread has a shared, upgradeable
\* or exclusive hold.
C1_ExclusiveExcludesAll ==
  \A t \in Threads : \A u \in Threads \ {t} : hold[t] = "X" => hold[u] = "none"

\* An exclusive holder has returned while another thread is suspended in
\* lock_shared().
C1_Witness ==
  \E t \in Threads : \E u \in Threads \ {t} :
    hold[t] = "X" /\ pc[t] = "idle" /\ pc[u] = "ls_wait"

\* C2: at most one thread has the upgradeable hold, counting the time its
\* holder spends inside upgrade_to_unique() and as exclusive holder.
C2_SingleUpgrader ==
  \A t \in Threads : \A u \in Threads \ {t} :
    hold[t] \in {"U", "X"} => hold[u] \notin {"U", "X"}

\* A thread has the upgradeable hold while another is suspended in lock_upgrade().
C2_Witness ==
  \E t \in Threads : \E u \in Threads \ {t} : hold[t] = "U" /\ pc[u] = "lu_wait"

\* C3: atomic upgrade.  From the CAS of a thread's lock_upgrade() until its
\* upgrade_to_unique() returns, no other thread has the exclusive hold and the
\* state word is never 0.
C3_AtomicUpgrade ==
  \A t \in Threads :
    (hold[t] = "U" \/ pc[t] = "up_ret") =>
      /\ state_ # 0
      /\ \A u \in Threads \ {t} : hold[u] # "X"

\* An upgrader is draining readers while a plain writer is suspended in lock().
C3_Witness ==
  \E t \in Threads : \E u \in Threads \ {t} : pc[t] = "up_wait" /\ pc[u] = "lk_wait"

\* C4: P1.  If the WRITER bit is set, then UPGRADER and PENDING are clear and
\* READERS is 0.
C4_WriterAlone ==
  Writer => ~Upgrader /\ ~Pending /\ Readers(state_) = 0

\* The WRITER bit was set by a completed upgrade while a reader is suspended.
C4_Witness ==
  /\ Writer
  /\ \E t \in Threads : pc[t] = "up_ret"
  /\ \E u \in Threads : pc[u] = "ls_wait"

\* C5: P2.  If the PENDING bit is set, then UPGRADER is set and WRITER is clear.
C5_PendingHasUpgrader ==
  Pending => Upgrader /\ ~Writer

\* PENDING is set with readers still present and the upgrader suspended on gate2.
C5_Witness ==
  /\ Pending
  /\ Readers(state_) >= 1
  /\ \E t \in Threads : pc[t] = "up_wait"

\* C6: P4.  READERS equals the number of threads with a shared hold, where a
\* shared hold starts at the successful CAS of lock_shared() or at the store of
\* unique_to_shared() and ends at the fetch_sub of unlock_shared().
C6_ReaderAccounting ==
  Readers(state_) = Cardinality({t \in Threads : hold[t] = "S"})

\* Two shared holds, one of them made by unique_to_shared() just now.
C6_Witness ==
  /\ Readers(state_) = 2
  /\ \E t \in Threads : pc[t] = "xs_n1"

\* C7: upgrade priority.  While PENDING is set READERS does not increase, and
\* PENDING gives way to nothing but the exclusive hold of the upgrader; a
\* thread inside lock_shared() gets no hold in a step taken while PENDING or
\* WRITER is set.
C7_UpgradePriority ==
  [][/\ Pending =>
          /\ Readers(state_') <= Readers(state_)
          /\ (HasFlag(state_', UPGRADE_PENDING_FLAG) \/ state_' = WRITE_LOCKED_FLAG)
     /\ \A t \in Threads :
          (pc[t] \in LockSharedPcs /\ (Pending \/ Writer)) => hold'[t] = hold[t]]_vars

\* PENDING is set, a reader still holds, and a shared acquirer that arrived in
\* the window is suspended on gate1.
C7_Witness ==
  /\ Pending
  /\ Readers(state_) >= 1
  /\ \E t \in Threads : \E u \in Threads \ {t} :
       pc[t] = "up_wait" /\ pc[u] = "ls_wait" /\ foundWriter[u] = FALSE

\* C8: upgrade liveness.  A thread that suspended inside upgrade_to_unique()
\* because readers were present is not left there for ever once they have all
\* called unlock_shared() (no new reader enters while PENDING is set).
C8_UpgradeLiveness ==
  \A t \in Threads : []<>~(pc[t] = "up_wait" /\ Readers(state_) = 0)

\* C9: a shared acquirer is released by unlock.  A thread whose lock_shared()
\* predicate found the write flag set is not left suspended on gate1 for ever
\* once the exclusive holder has called unlock() and neither WRITER nor PENDING
\* is set again.
C9_SharedReleasedByUnlock ==
  \A t \in Threads :
    []<>~(/\ pc[t] \in {"ls_block", "ls_wait"}
          /\ foundWriter[t]
          /\ writerLeft = "unlock"
          /\ SharedPermitted(state_))

\* C10: shared acquisition never blocks when permitted.  A lock_shared() call
\* during the whole of which WRITER and PENDING were clear is not suspended on
\* gate1.
C10_SharedNeverBlocksWhenPermitted ==
  \A t \in Threads : pc[t] = "ls_wait" => ~unhindered[t]

\* C11: exclusive acquisition requires a free mutex.  The step in which a
\* thread inside lock() gets the exclusive hold changes the state word from
\* exactly 0 to exactly WRITER, and no other thread has any hold in it.
C11_LockFromFree ==
  [][\A t \in Threads :
       (pc[t] \in LockPcs /\ hold[t] # "X" /\ hold'[t] = "X") =>
         /\ state_ = 0
         /\ state_' = WRITE_LOCKED_FLAG
         /\ \A u \in Threads \ {t} : hold[u] = "none"]_vars

\* lock() has succeeded and is about to return while another lock() is suspended.
C11_Witness ==
  \E t \in Threads : \E u \in Threads \ {t} : pc[t] = "lk_ret" /\ pc[u] = "lk_wait"

\* C12: a downgrade releases blocked readers.  A thread whose lock_shared()
\* predicate found the write flag set is not left suspended on gate1 for ever
\* once the exclusive holder has called unique_to_upgrade() and neither WRITER
\* nor PENDING is set again.
C12_SharedReleasedByDowngrade ==
  \A t \in Threads :
    []<>~(/\ pc[t] \in {"ls_block", "ls_wait"}
          /\ foundWriter[t]
          /\ writerLeft = "unique_to_upgrade"
          /\ SharedPermitted(state_))

\* C13: deadlock freedom.  No state is reached in which every thread is
\* suspended on gate1 or gate2.
C13_NotAllSuspended ==
  ~(\A t \in Threads : t \in gate1_ \cup gate2_)

\* The recorded run of one thread alone, started on the quiescent mutex, is
\* exactly the operations `ops`, all of them returned.
SoloRan(ops) ==
  /\ solo.who # 0
  /\ solo.ops = ops
  /\ Len(solo.words) = Len(ops)

\* The recorded run is inside the sequence `ops`: a prefix of it has been called.
SoloRunning(ops) ==
  /\ solo.who # 0
  /\ Len(solo.ops) <= Len(ops)
  /\ \A i \in 1..Len(solo.ops) : solo.ops[i] = ops[i]

\* A thread is suspended on a gate or about to be.
Suspending(t) ==
  pc[t] \in {"ls_block", "ls_wait", "lu_block", "lu_wait", "lk_block", "lk_wait", "up_block", "up_wait"}

L1 == <<"lock_shared", "unlock_shared">>

L2 == <<"lock_upgrade", "upgrade_to_unique", "unique_to_upgrade", "unlock_upgrade">>

L3 == <<"lock", "unique_to_shared", "unlock_shared">>

\* C14: round trip L1.  From the state word 0, with no other thread active,
\* lock_shared() then unlock_shared() by one thread leaves the state word 0.
C14_RoundTripShared ==
  SoloRan(L1) => state_ = 0 /\ solo.words[2] = 0

\* The two calls of L1 have run and returned.
C14_Witness == SoloRan(L1)

\* C15: round trip L2.  From FREE, lock_upgrade(); upgrade_to_unique();
\* unique_to_upgrade(); unlock_upgrade() by one thread never suspends and
\* leaves the state words UPGRADER, WRITER, UPGRADER and 0.
C15_RoundTripUpgrade ==
  /\ SoloRunning(L2) => ~Suspending(solo.who)
  /\ SoloRan(L2) =>
       /\ solo.words = <<UPGRADE_LOCKED_FLAG, WRITE_LOCKED_FLAG, UPGRADE_LOCKED_FLAG, 0>>
       /\ state_ = 0

\* The four calls of L2 have run and returned.
C15_Witness == SoloRan(L2)

\* C16: round trip L3.  From FREE, lock(); unique_to_shared(); unlock_shared()
\* by one thread leaves the state word 0; after unique_to_shared() READERS is 1
\* and all flags are clear.
C16_RoundTripDowngrade ==
  /\ (SoloRunning(L3) /\ Len(solo.words) >= 2) => solo.words[2] = ONE_READER
  /\ SoloRan(L3) => state_ = 0 /\ solo.words[3] = 0

\* The three calls of L3 have run and returned.
C16_Witness == SoloRan(L3)

\* C17: an upgrade followed by the matching downgrade preserves the
\* upgradeable hold.  The unique_to_upgrade() of a thread whose exclusive hold
\* came from upgrade_to_unique() leaves UPGRADER = 1, WRITER = 0, PENDING = 0
\* and that thread the upgradeable holder; from its call of upgrade_to_unique()
\* to that step no other thread gets the upgradeable or the exclusive hold.
C17_UpgradeDowngradeKeepsHold ==
  [][\A t \in Threads :
       /\ (hold[t] = "X" /\ writerCame = "upgrade_to_unique" /\ pc'[t] = "xu_n1") =>
            /\ HasFlag(state_', UPGRADE_LOCKED_FLAG)
            /\ ~HasFlag(state_', WRITE_LOCKED_FLAG)
            /\ ~HasFlag(state_', UPGRADE_PENDING_FLAG)
            /\ hold'[t] = "U"
            /\ \A u \in Threads \ {t} : hold'[u] \notin {"U", "X"}
       /\ (pc[t] \in UpgradePcs \/ (hold[t] = "X" /\ writerCame = "upgrade_to_unique")) =>
            \A u \in Threads \ {t} :
              hold'[u] \in {"U", "X"} => hold[u] = hold'[u]]_vars

\* The upgrader has come back to the upgradeable hold by unique_to_upgrade()
\* and is about to broadcast, while a reader acquired before the broadcast.
C17_Witness ==
  \E t \in Threads :
    /\ pc[t] = "xu_n1"
    /\ hold[t] = "U"
    /\ writerLeft = "unique_to_upgrade"
    /\ \E u \in Threads \ {t} : pc[u] = "lu_wait"

\* The guards of class k whose p_mutex_ points at the mutex.
Owning(k) == {i \in 1..MaxGuards : guards[i].kind = k /\ guards[i].owns}

\* The state word made of exactly the holds the owning guards stand for.
GuardWord ==
  Cardinality(Owning("shared")) * ONE_READER
    + (IF Owning("upgrade") # {} THEN UPGRADE_LOCKED_FLAG ELSE 0)
    + (IF Owning("unique") # {} THEN WRITE_LOCKED_FLAG ELSE 0)

\* C18: guards release exactly once.  After any sequence of guard
\* constructions, transition constructions, move constructions, move
\* assignments and destructions, the holds taken on the mutex and not yet
\* released are exactly those of the guards that own: no acquisition is left
\* without its release and none is released twice.
C18_GuardsReleaseOnce == state_ = GuardWord

\* Positions inside unlock(), unlock_shared(), unlock_upgrade(),
\* unique_to_upgrade() and unique_to_shared() after their atomic update.
ReleasePcs == {"ul_n2", "ul_n1", "us_n2", "uu_n2", "uu_n1", "xu_n1", "xs_n1"}

\* The number of steps a release or downgrade still has to take at most.
StepsLeft(p) ==
  CASE p \in {"ul_n2", "uu_n2"} -> 2
    [] p \in {"ul_n1", "us_n2", "uu_n1", "xu_n1", "xs_n1"} -> 1
    [] OTHER -> 0

\* Thread t, idle, can call every release and downgrade its hold allows.
CanRelease(t) ==
  /\ hold[t] = "X" => ENABLED Unlock(t) /\ ENABLED UniqueToUpgrade(t) /\ ENABLED UniqueToShared(t)
  /\ hold[t] = "S" => ENABLED UnlockShared(t)
  /\ hold[t] = "U" => ENABLED UnlockUpgrade(t)

\* Every thread inside a release or downgrade can take its next step.
C19_ReleaseAlwaysEnabled ==
  \A t \in Threads :
    /\ pc[t] \in ReleasePcs => ENABLED Step(t)
    /\ pc[t] = "idle" => CanRelease(t)

\* Thread t takes a step of a release or a downgrade: the call, which changes
\* its hold at once, or a notification after it.
ReleaseStep(t) ==
  \/ pc[t] = "idle" /\ hold'[t] # hold[t]
  \/ pc[t] \in ReleasePcs /\ pc'[t] # pc[t]

\* C19: releases and downgrades never block.  A step of unlock(),
\* unlock_shared(), unlock_upgrade(), unique_to_upgrade() or unique_to_shared()
\* leaves the inner mutex as it is and puts the caller on no gate; at most two
\* steps follow the call, and the next one is possible in every state, whoever
\* holds the inner mutex and whoever is suspended.
C19_ReleasesNeverBlock ==
  /\ []C19_ReleaseAlwaysEnabled
  /\ [][\A t \in Threads :
         ReleaseStep(t) =>
           /\ internal_mutex_' = internal_mutex_
           /\ t \notin gate1_' \cup gate2_'
           /\ pc'[t] \in ReleasePcs \cup {"idle"}
           /\ pc[t] \in ReleasePcs => StepsLeft(pc'[t]) < StepsLeft(pc[t])]_vars

\* A thread is inside a release while another thread holds the inner mutex
\* and a third is suspended on a gate.
C19_Witness ==
  \E t \in Threads :
    /\ pc[t] \in ReleasePcs
    /\ internal_mutex_ \in Threads \ {t}
    /\ gate1_ \cup gate2_ # {}

\* Thread t executes the compare-and-swap of an acquisition and it fails: the
\* word is no longer the one the predicate loaded.
CasFails(t) ==
  /\ pc[t] \in {"lk_cas", "ls_cas", "lu_cas"}
  /\ pc'[t] # pc[t]
  /\ state_ # current_state[t]

\* C20: a failed compare-and-swap re-evaluates the predicate.  When the CAS of
\* lock(), lock_shared() or lock_upgrade() fails, the acquirer goes back to
\* reading the state word; it is not on its way to suspend on the gate.
C20_FailedCasRetries ==
  [][\A t \in Threads :
       CasFails(t) => pc'[t] \in {"lk_load", "ls_load", "lu_load"}]_vars

\* Thread t executes the fetch_sub of unlock_shared().
UnlockSharedUpdate(t) == pc[t] = "idle" /\ hold[t] = "S" /\ hold'[t] = "none"

\* C21: the last reader wakes a draining upgrader.  An unlock_shared() whose
\* decrement takes READERS from 1 to 0 while UPGRADER and PENDING are set goes
\* on to notify gate2.
C21_LastReaderWakesUpgrader ==
  [][\A t \in Threads :
       (UnlockSharedUpdate(t) /\ Readers(state_) = ONE_READER /\ Upgrader /\ Pending)
         => pc'[t] = "us_n2"]_vars

\* Thread t executes the atomic update of unlock(), unlock_shared() or
\* unlock_upgrade(): it is idle and its hold ends.
UnlockUpdate(t) == pc[t] = "idle" /\ hold[t] # "none" /\ hold'[t] = "none"

\* Positions from which the next step of the call is gate2_.notify_one().
NotifyGate2Pcs == {"ul_n2", "us_n2", "uu_n2"}

\* C22: every step that makes the state word fully quiescent signals gate2.
\* The unlock(), unlock_shared() or unlock_upgrade() whose atomic update brings
\* the word to 0 goes on to gate2_.notify_one(), and that notification takes a
\* thread off gate2 if one is suspended there.
C22_QuiescenceSignalsGate2 ==
  [][\A t \in Threads :
       /\ (UnlockUpdate(t) /\ state_' = 0) => pc'[t] \in NotifyGate2Pcs
       /\ (pc[t] \in NotifyGate2Pcs /\ pc'[t] # pc[t] /\ gate2_ # {}) =>
            \E w \in gate2_ : gate2_' = gate2_ \ {w} /\ pc'[w] = Resume(pc[w])]_vars

\* A concurrent unlock_upgrade() and unlock_shared(), the upgrade release first:
\* the reader's decrement brought the word to 0 and it is about to notify gate2,
\* where a lock() caller is suspended.
C22_Witness ==
  \E t, u, w \in Threads :
    /\ pc[t] = "us_n2"
    /\ pc[u] = "uu_n1"
    /\ pc[w] = "lk_wait"
    /\ state_ = 0

\* Every thread but t is idle and holds nothing.
OthersGone(t) == \A u \in Threads \ {t} : pc[u] = "idle" /\ hold[u] = "none"

\* C23: exclusive acquirer liveness on quiescence.  A thread inside lock() is
\* not left suspended for ever while the state word is 0 and every other
\* thread has released and is idle.
C23_LockLivenessOnQuiescence ==
  \A t \in Threads :
    []<>~(pc[t] \in {"lk_block", "lk_wait"} /\ state_ = 0 /\ OthersGone(t))

\* The step turns the lock_shared() or the lock_upgrade() precondition from
\* false to true.
EnablesGate1 ==
  \/ ~SharedPermitted(state_) /\ SharedPermitted(state_')
  \/ ~UpgradePermitted(state_) /\ UpgradePermitted(state_')

\* Positions of a call that still has gate1_.notify_all() ahead: directly, or
\* after the gate2 notification.
NotifyGate1Pcs == {"ul_n1", "uu_n1", "xu_n1", "xs_n1"}

\* C24: gate1 is broadcast on every enabling event.  The atomic update that
\* turns the lock_shared() or the lock_upgrade() precondition from false to
\* true is made by a call that goes on to gate1_.notify_all(): after the gate2
\* notification, if any, its next step takes every suspended thread off gate1.
C24_Gate1BroadcastOnEnabling ==
  [][/\ EnablesGate1 =>
          \E t \in Threads :
            /\ pc[t] = "idle"
            /\ pc'[t] \in NotifyGate1Pcs \cup {"ul_n2", "uu_n2"}
     /\ \A t \in Threads :
          /\ (pc[t] = "ul_n2" /\ pc'[t] # pc[t]) => pc'[t] = "ul_n1"
          /\ (pc[t] = "uu_n2" /\ pc'[t] # pc[t]) => pc'[t] = "uu_n1"
          /\ (pc[t] \in NotifyGate1Pcs /\ pc'[t] # pc[t]) =>
               /\ gate1_' = {}
               /\ \A w \in gate1_ : pc'[w] = Resume(pc[w])]_vars

\* An unlock_upgrade() has made lock_upgrade() possible again and is about to
\* broadcast on gate1, where a thread is suspended.
C24_Witness ==
  \E t \in Threads :
    /\ pc[t] = "uu_n1"
    /\ gate1_ # {}
    /\ UpgradePermitted(state_)

\* The variant that signals under the inner mutex: a release or downgrade
\* takes internal_mutex_ around each of its notifications, so the notification
\* is issued only while no thread is between its predicate and its suspension.
UnderMutexNext ==
  \E t \in Threads :
    \/ Begin(t)
    \/ Step(t) /\ (pc[t] \in ReleasePcs => internal_mutex_ = 0)
    \/ SpuriousWakeup(t)

UnderMutexStep(t) == Step(t) /\ (pc[t] \in ReleasePcs => internal_mutex_ = 0)

\* The variant under the fairness of LiveSpec.
UnderMutexLiveSpec ==
  Init /\ [][UnderMutexNext]_vars /\ \A t \in Threads : SF_vars(UnderMutexStep(t))

\* No thread is inside a release or downgrade with a notification still to issue.
NoReleaseUnderWay == \A u \in Threads : pc[u] \notin ReleasePcs

\* C25: signalling under the inner mutex is behaviourally equivalent.  What
\* the variant that notifies under the inner mutex guarantees, the source
\* guarantees too: a lock() caller is not left suspended on gate2 for ever
\* while the word is 0 and every notification has been issued.
C25_WaitersAcquireAsUnderMutex ==
  \A t \in Threads :
    []<>~(pc[t] = "lk_wait" /\ state_ = 0 /\ NoReleaseUnderWay)

\* Thread t issues the gate2 notification of unlock_upgrade() and it takes the
\* lock() caller w off gate2.
UnlockUpgradeWakes(t, w) ==
  /\ pc[t] = "uu_n2"
  /\ pc'[t] = "uu_n1"
  /\ pc[w] = "lk_wait"
  /\ w \in gate2_ \ gate2_'

\* C26: the conditional gate2 notification in unlock_upgrade() is redundant.
\* No lock() caller's progress depends on it: it never wakes a lock() caller
\* that nothing else was going to wake, the word being 0, no other release
\* under way and every other thread idle or suspended.
C26_UpgradeGate2NotifyRedundant ==
  [][\A t, w \in Threads :
       UnlockUpgradeWakes(t, w) =>
         ~(/\ state_ = 0
           /\ \A u \in Threads \ {t, w} : pc[u] = "idle" \/ u \in gate1_ \cup gate2_)]_vars

\* C26 as it holds: the gate2 notification of unlock_upgrade() is issued
\* exactly when the release leaves the word 0, it takes a thread off gate2
\* when one is suspended there, and gate1_.notify_all() takes none off gate2;
\* a lock() caller suspended at that moment is woken by this notification only.
C26_UpgradeGate2NotifyNeeded ==
  [][\A t \in Threads :
       /\ (pc[t] = "idle" /\ hold[t] = "U" /\ hold'[t] = "none") =>
            (pc'[t] = "uu_n2" <=> state_' = 0)
       /\ (pc[t] = "uu_n2" /\ pc'[t] # pc[t] /\ gate2_ # {}) =>
            \E w \in gate2_ : gate2_' = gate2_ \ {w} /\ pc'[w] = Resume(pc[w])
       /\ (pc[t] = "uu_n1" /\ pc'[t] # pc[t]) => gate2_' = gate2_]_vars

\* The notification of unlock_upgrade() is about to be issued with a lock()
\* caller suspended on gate2, the word 0 and the third thread idle.
C26_Witness ==
  \E t, w \in Threads :
    /\ pc[t] = "uu_n2"
    /\ pc[w] = "lk_wait"
    /\ w \in gate2_
    /\ state_ = 0
    /\ \A u \in Threads \ {t, w} : pc[u] = "idle"

\* Thread t leaves its gate and no other thread takes a step: no notification
\* woke it.
WakesSpuriously(t) ==
  /\ t \in gate1_ \cup gate2_
  /\ t \notin gate1_' \cup gate2_'
  /\ \A u \in Threads \ {t} : pc'[u] = pc[u]

\* The predicate of the acquisition whose deciding step is at position p holds
\* of the word s.
PredicateAt(p, s) ==
  CASE p = "ls_cas" -> SharedPermitted(s)
    [] p = "lu_cas" -> UpgradePermitted(s)
    [] p = "lk_cas" -> LockPermitted(s)
    [] p = "up_store" -> ReadersDrained(s)
    [] OTHER -> FALSE

\* Mutual exclusion and the state-word invariants P1, P2 and P4.
SafeWord ==
  /\ \A t \in Threads : \A u \in Threads \ {t} : hold[t] = "X" => hold[u] = "none"
  /\ Writer => ~Upgrader /\ ~Pending /\ Readers(state_) = 0
  /\ Pending => Upgrader
  /\ Readers(state_) = Cardinality({t \in Threads : hold[t] = "S"})

\* C27: spurious wakeups are harmless.  A thread that wakes without a
\* notification changes nothing but its own position and has to take the inner
\* mutex again; what it gets afterwards it gets in a step whose predicate
\* holds of the word at that step; and mutual exclusion, P1, P2 and P4 hold in
\* every reachable state, spurious wakeups being possible at any time.
C27_SpuriousWakeupsHarmless ==
  /\ []SafeWord
  /\ [][\A t \in Threads :
         /\ WakesSpuriously(t) =>
              /\ pc'[t] \in {"ls_acq", "lu_acq", "lk_acq", "up_reacq"}
              /\ state_' = state_ /\ hold' = hold /\ internal_mutex_' = internal_mutex_
         /\ (t \in DOMAIN spurious /\ spurious[t] /\ hold'[t] # hold[t]) =>
              PredicateAt(pc[t], state_)]_vars

\* The observed thread woke without a notification, evaluated its predicate
\* again and has acquired.
C27_Witness ==
  \E t \in DOMAIN spurious :
    /\ spurious[t]
    /\ pc[t] \in {"ls_ret", "lu_ret", "lk_ret", "up_ret"}

\* Thread t executes the final store of its upgrade_to_unique().
UpgradeStores(t) == pc[t] = "up_store" /\ pc'[t] = "up_ret"

\* C28: PENDING is cleared only by a completed upgrade.  A step that takes
\* PENDING from 1 to 0 is the final store of upgrade_to_unique() by the thread
\* that set it, the holder of the upgradeable hold; that store does clear it;
\* every other step taken while PENDING is set, the steps of unlock_shared(),
\* lock_shared(), lock_upgrade() and lock() among them, leaves PENDING and
\* UPGRADER set.
C28_PendingClearedByUpgradeOnly ==
  [][/\ (Pending /\ ~HasFlag(state_', UPGRADE_PENDING_FLAG)) =>
          \E t \in Threads : UpgradeStores(t) /\ hold[t] = "U"
     /\ \A t \in Threads : UpgradeStores(t) => Pending /\ ~HasFlag(state_', UPGRADE_PENDING_FLAG)
     /\ (Pending /\ ~\E t \in Threads : UpgradeStores(t)) =>
          /\ HasFlag(state_', UPGRADE_PENDING_FLAG)
          /\ HasFlag(state_', UPGRADE_LOCKED_FLAG)]_vars

\* The upgrade has completed and cleared PENDING; a lock() caller and nobody
\* else is suspended.
C28_Witness ==
  /\ state_ = WRITE_LOCKED_FLAG
  /\ \E t \in Threads : \E u \in Threads \ {t} :
       pc[t] = "up_ret" /\ pc[u] = "lk_wait" /\ gate2_ = {u}

\* C29: the upgrade's blind store loses no update.  From the predicate's read
\* of READERS = 0 to the store of WRITER the state word is exactly
\* UPGRADER|PENDING, and no step of another thread changes it in between.
C29_BlindStoreLosesNothing ==
  /\ [](\A t \in Threads :
          pc[t] = "up_store" => state_ = UPGRADE_LOCKED_FLAG + UPGRADE_PENDING_FLAG)
  /\ [][\A t \in Threads :
         (pc[t] = "up_store" /\ pc'[t] = pc[t]) => state_' = state_]_vars

\* The upgrader has read READERS = 0 and is about to store, while a reader
\* that left earlier still has to notify and a third thread wants the inner
\* mutex for lock_shared().
C29_Witness ==
  \E t, u, w \in Threads :
    /\ pc[t] = "up_store"
    /\ pc[u] = "ls_acq"
    /\ pc[w] = "us_n2"

\* Thread t, the exclusive holder, executes the atomic update of unlock(),
\* unique_to_upgrade() or unique_to_shared().
ExclusiveHolderWrites(t) == pc[t] = "idle" /\ hold[t] = "X" /\ hold'[t] # "X"

\* C30: writes by the exclusive holder act on exactly WRITER.  While a thread
\* has the exclusive hold the state word is exactly WRITER; its unlock()
\* leaves 0, its unique_to_upgrade() leaves exactly UPGRADER and its
\* unique_to_shared() exactly one reader, each in the one step that ends the
\* exclusive hold, and no other thread has changed the word in between.
C30_ExclusiveWritesOnWriter ==
  /\ [](\A t \in Threads : hold[t] = "X" => state_ = WRITE_LOCKED_FLAG)
  /\ [][\A t \in Threads :
         /\ ExclusiveHolderWrites(t) =>
              /\ state_ = WRITE_LOCKED_FLAG
              /\ hold'[t] = "none" => state_' = 0
              /\ hold'[t] = "U" => state_' = UPGRADE_LOCKED_FLAG
              /\ hold'[t] = "S" => state_' = ONE_READER
         /\ (hold[t] = "X" /\ hold'[t] = "X") => state_' = state_]_vars

\* The exclusive holder has downgraded to shared in one step and is about to
\* broadcast, with a lock() caller suspended on gate2.
C30_Witness ==
  /\ state_ = ONE_READER
  /\ \E t \in Threads : \E u \in Threads \ {t} :
       pc[t] = "xs_n1" /\ hold[t] = "S" /\ pc[u] = "lk_wait"

\* The coarse state of the word s: FREE, S(n), U, U+S(n), P(n) or X, with n
\* the reader count; any other word is no coarse state.
Coarse(s) ==
  LET w == HasFlag(s, WRITE_LOCKED_FLAG)
      u == HasFlag(s, UPGRADE_LOCKED_FLAG)
      p == HasFlag(s, UPGRADE_PENDING_FLAG)
      n == Readers(s)
  IN  CASE ~w /\ ~u /\ ~p /\ n = 0 -> [kind |-> "FREE", n |-> 0]
        [] ~w /\ ~u /\ ~p /\ n > 0 -> [kind |-> "S", n |-> n]
        [] ~w /\ u /\ ~p /\ n = 0 -> [kind |-> "U", n |-> 0]
        [] ~w /\ u /\ ~p /\ n > 0 -> [kind |-> "U+S", n |-> n]
        [] ~w /\ u /\ p -> [kind |-> "P", n |-> n]
        [] w /\ ~u /\ ~p /\ n = 0 -> [kind |-> "X", n |-> 0]
        [] OTHER -> [kind |-> "none", n |-> n]

\* One reader more or one reader fewer.
ReaderStep(a, b) == b.n = a.n + 1 \/ b.n = a.n - 1

\* The transitions of the coarse state machine as listed, read generously:
\* 'U -> U+S(n) and back' with every change of n under the upgradeable hold,
\* 'U -> P(0) -> X' with the drain P(n) -> P(n-1) from U+S(n).
ListedTransition(a, b) ==
  \/ a.kind = "FREE" /\ b.kind = "S" /\ b.n = 1
  \/ a.kind = "S" /\ b.kind = "S" /\ ReaderStep(a, b)
  \/ a.kind = "FREE" /\ b.kind = "U"
  \/ a.kind \in {"U", "U+S"} /\ b.kind \in {"U", "U+S"} /\ ReaderStep(a, b)
  \/ a.kind \in {"U", "U+S"} /\ b.kind = "P" /\ b.n = a.n
  \/ a.kind = "P" /\ b.kind = "P" /\ b.n = a.n - 1
  \/ a.kind = "P" /\ a.n = 0 /\ b.kind = "X"
  \/ a.kind = "X" /\ b.kind = "U"
  \/ a.kind = "X" /\ b.kind = "S" /\ b.n = 1
  \/ a.kind = "X" /\ b.kind = "FREE"
  \/ a.kind = "U" /\ b.kind = "FREE"
  \/ a.kind = "S" /\ a.n = 1 /\ b.kind = "FREE"

\* The transitions the list leaves out: lock() on the free mutex,
\* lock_upgrade() beside readers and unlock_upgrade() beside readers.
UnlistedTransition(a, b) ==
  \/ a.kind = "FREE" /\ b.kind = "X"
  \/ a.kind = "S" /\ b.kind = "U+S" /\ b.n = a.n
  \/ a.kind = "U+S" /\ b.kind = "S" /\ b.n = a.n

\* C31: coarse state machine.  Every change of the state word is one of the
\* listed transitions between FREE, S(n), U, U+S(n), P(n) and X.
C31_OnlyListedTransitions ==
  [][state_' # state_ => ListedTransition(Coarse(state_), Coarse(state_'))]_vars

\* C31 as it holds: every change of the state word is one of the listed
\* transitions or one of FREE -> X, S(n) -> U+S(n), U+S(n) -> S(n), and every
\* word reached is a coarse state.
C31_ListedAndThreeMore ==
  [][state_' # state_ =>
       /\ Coarse(state_').kind # "none"
       /\ \/ ListedTransition(Coarse(state_), Coarse(state_'))
          \/ UnlistedTransition(Coarse(state_), Coarse(state_'))]_vars

\* lock() has taken the free mutex: the word went from FREE to X.
C31_Witness ==
  /\ Coarse(state_).kind = "X"
  /\ writerCame = "lock"
  /\ \E t \in Threads : pc[t] = "lk_ret"

\* ---------------------------------------------------------------------------
\* C32: plain exclusive acquirers can starve.  A thread suspended in lock()
\* leaves no mark in the state word, so lock_shared() goes on succeeding; a
\* lock() caller takes its hold only from a word with READERS = 0; and while two
\* readers go round their overlapping holds (a lap is under way or closed) the
\* caller stays suspended on gate2 without a hold, READERS >= 1, and none of
\* its steps is possible, so a schedule that repeats the lap is fair to it.
\* The witness is a closed lap: the mutex and all threads are back in the very
\* state the lap started in, with both readers having held together in between.
LapUnderWay == lap.phase \in {"one", "two", "other", "twoagain", "closed"}

C32_WaiterStarvedThroughLap ==
  LapUnderWay =>
    /\ pc[lap.t] = "lk_wait"
    /\ lap.t \in gate2_
    /\ hold[lap.t] = "none"
    /\ Readers(state_) >= 1
    /\ ~ENABLED Step(lap.t)

C32_ExclusiveAcquirerCanStarve ==
  /\ []C32_WaiterStarvedThroughLap
  /\ [][\A t \in Threads :
          /\ (pc[t] = "lk_cas" /\ hold'[t] = "X" => Readers(state_) = 0)
          /\ (/\ pc[t] = "ls_cas"
              /\ pc'[t] # "ls_cas"
              /\ state_ = current_state[t]
              /\ \E u \in Threads : pc[u] = "lk_wait"
              => hold'[t] = "S" /\ Readers(state_') = Readers(state_) + 1)]_vars

C32_Witness == lap.phase = "closed"

\* ---------------------------------------------------------------------------
\* Thread t has finished all iterations of its loop.
Finished(t) == op[t].done = ops_per_thread /\ pc[t] = "idle" /\ hold[t] = "none"

\* C33: the upgrade-heavy workload terminates.  Under fair scheduling every
\* thread eventually finishes all its iterations of lock_upgrade(), optional
\* scoped upgrade, unlock_upgrade(); in particular no thread stays suspended in
\* lock_upgrade() on gate1 after the last unlock_upgrade() of the others.
C33_UpgradeHeavyTerminates == <>(\A t \in Threads : Finished(t))

\* ---------------------------------------------------------------------------
\* In this step shared_lock(m) made guard i: its lock_shared() call returned.
SharedConstructed(i) ==
  /\ guards[i] = NoGuard
  /\ guards'[i] = [kind |-> "shared", owns |-> TRUE]
  /\ \A j \in (1..MaxGuards) \ {i} : guards'[j] = guards[j]

\* READERS is at its maximum, no writer holds and no upgrade is pending.
ReadersFull ==
  /\ Readers(state_) = READER_COUNT_MASK
  /\ ~Writer
  /\ ~Pending

\* C34: the reader-count overflow is unchecked.  With READERS at its maximum,
\* WRITER = 0 and PENDING = 0, lock_shared() is not held back by any bound
\* check: it returns, and its increment carries out of the READERS field into
\* the PENDING bit, leaving READERS = 0 and PENDING = 1 and the other two
\* flags as they were.
C34_LockSharedAtFullCount ==
  ReadersFull =>
    \A i \in 1..MaxGuards : guards[i] = NoGuard => ENABLED GuardConstruct(i, "shared")

C34_ReaderOverflowUnchecked ==
  /\ []C34_LockSharedAtFullCount
  /\ [][\A i \in 1..MaxGuards :
          ReadersFull /\ SharedConstructed(i) =>
            /\ Readers(state_') = 0
            /\ HasFlag(state_', UPGRADE_PENDING_FLAG)
            /\ ~HasFlag(state_', WRITE_LOCKED_FLAG)
            /\ HasFlag(state_', UPGRADE_LOCKED_FLAG) = Upgrader]_vars

\* The count has overflowed: a shared guard was made, and the word shows no
\* reader and a pending upgrade that no upgrader asked for.
C34_Witness ==
  /\ state_ = UPGRADE_PENDING_FLAG
  /\ \E i \in 1..MaxGuards : guards[i] = [kind |-> "shared", owns |-> TRUE]

\* ---------------------------------------------------------------------------
\* Thread t happens after the latest end of a hold by every other thread, where
\* that end gave up a hold of a kind in ks.
Published(t, ks) ==
  \A u \in Threads \ {t} : view.last[u] \in ks => u \in view.thread[t]

\* C35: acquire/release publication.  Every successful acquisition
\* synchronises with the release operation of the previous holder: the
\* exclusive holder, whether it came by lock() or by upgrade_to_unique(),
\* happens after the latest end of every other thread's hold of any kind, and
\* a shared or upgradeable holder happens after the latest end of every other
\* thread's exclusive hold.
C35_AcquisitionsSeeReleases ==
  \A t \in Threads :
    /\ hold[t] = "X" => Published(t, {"X", "U", "S"})
    /\ hold[t] \in {"S", "U"} => Published(t, {"X"})

====
